---- MODULE Spec2Model ----
(***************************************************************************)
(* A model of wordle_solve (src/src/main.rs): the Play loop, the Solve     *)
(* loop, and the pure functions they share (Word parsing, the candidate    *)
(* filter, the frequency scorer and the guess evaluator).                   *)
(*                                                                         *)
(* A Rust char is modelled by its Unicode code point, a &str by the         *)
(* sequence of its chars, a Word by a sequence of WordLen code points.      *)
(* Source positions are 0-based; TLA+ sequences are 1-based, so the source  *)
(* expression word.0[p] is word[p + 1] here.                                *)
(***************************************************************************)
EXTENDS Integers, Sequences, FiniteSets, TLC

\* const MAX_GUESSES: usize = 6;
MAX_GUESSES == 6

\* struct Word([char; 5]);
WordLen == 5

\* scores.iter().take(10) in display_suggestions
DisplayTake == 10

(***************************************************************************)
(* Characters and string literals.                                         *)
(***************************************************************************)
LowerCase == << "a", "b", "c", "d", "e", "f", "g", "h", "i", "j", "k", "l", "m",
                "n", "o", "p", "q", "r", "s", "t", "u", "v", "w", "x", "y", "z" >>

UpperCase == << "A", "B", "C", "D", "E", "F", "G", "H", "I", "J", "K", "L", "M",
                "N", "O", "P", "Q", "R", "S", "T", "U", "V", "W", "X", "Y", "Z" >>

\* The code point of a character written as a one-character string. Two
\* chars are written by name: "backtick" is U+0060, and "e'" is U+00E9 (e with
\* acute accent), a char whose UTF-8 encoding takes two bytes.
Ord(ch) ==
    IF \E i \in 1..26 : LowerCase[i] = ch
    THEN 96 + (CHOOSE i \in 1..26 : LowerCase[i] = ch)
    ELSE IF \E i \in 1..26 : UpperCase[i] = ch
    THEN 64 + (CHOOSE i \in 1..26 : UpperCase[i] = ch)
    ELSE CASE ch = "!"  -> 33
           [] ch = "'"  -> 39
           [] ch = "backtick"  -> 96
           [] ch = "?"  -> 63
           [] ch = " "  -> 32
           [] ch = "e'" -> 233

\* A string literal: Str(<<"a", "b">>) is the &str "ab".
Str(t) == [i \in 1..Len(t) |-> Ord(t[i])]

\* char::to_ascii_lowercase: only 'A'..='Z' are changed.
to_ascii_lowercase(c) == IF c \in 65..90 THEN c + 32 ELSE c

\* char::len_utf8
len_utf8(c) ==
    IF c < 128 THEN 1 ELSE IF c < 2048 THEN 2 ELSE IF c < 65536 THEN 3 ELSE 4

\* str::len: the length of the string in bytes, not in chars.
RECURSIVE str_len(_)
str_len(value) ==
    IF value = <<>> THEN 0 ELSE len_utf8(Head(value)) + str_len(Tail(value))

\* slice::contains
contains(s, c) == \E i \in 1..Len(s) : s[i] = c

Min(x, y) == IF x <= y THEN x ELSE y

(***************************************************************************)
(* Result<T, E> and a call that may panic.                                  *)
(***************************************************************************)
Ok(v) == [ok |-> TRUE, val |-> v]
Err == [ok |-> FALSE, val |-> <<>>]

Returned(v) == <<v>>
Panicked == <<>>

Some(v) == [some |-> TRUE, val |-> v]
None == [some |-> FALSE, val |-> <<>>]

(***************************************************************************)
(* Word                                                                    *)
(***************************************************************************)
\* Word::default(): five '\0' chars.
Word_default == [pos \in 1..WordLen |-> 0]

\* impl TryFrom<&str> for Word
Word_try_from(value) ==
    IF str_len(value) # 5
    THEN Err
    ELSE Ok([pos \in 1..WordLen |->
                IF pos <= Min(Len(value), 5)
                THEN to_ascii_lowercase(value[pos])
                ELSE Word_default[pos]])

\* impl Display for Word: the five chars, verbatim.
Word_fmt(word) == [i \in 1..Len(word) |-> word[i]]

(***************************************************************************)
(* Guess evaluator                                                         *)
(***************************************************************************)
Empty == [tag |-> "Empty", c |-> 0]
Correct(ch) == [tag |-> "Correct", c |-> ch]
Present(ch) == [tag |-> "Present", c |-> ch]
Incorrect(ch) == [tag |-> "Incorrect", c |-> ch]

\* The body of the for loop of guess_word, from position pos (1-based) on.
RECURSIVE guess_word_from(_, _, _, _)
guess_word_from(guess, answer, pos, result) ==
    IF pos > Min(Len(guess), Len(answer))
    THEN result
    ELSE LET guess_char == guess[pos]
             answer_char == answer[pos]
             verdict == IF guess_char = answer_char
                        THEN Correct(guess_char)
                        ELSE IF \E i \in 1..Len(answer) : answer[i] = guess_char
                        THEN Present(guess_char)
                        ELSE Incorrect(guess_char)
         IN  guess_word_from(guess, answer, pos + 1, [result EXCEPT ![pos] = verdict])

\* guess_word as it would be if a letter repeated in the guess were marked
\* Present at its first occurrence only.
guess_word_FirstOnly(guess, answer) ==
    [pos \in 1..WordLen |->
        IF guess[pos] = answer[pos]
        THEN Correct(guess[pos])
        ELSE IF /\ \E i \in 1..Len(answer) : answer[i] = guess[pos]
                /\ ~ \E q \in 1..(pos - 1) : guess[q] = guess[pos]
        THEN Present(guess[pos])
        ELSE Incorrect(guess[pos])]

guess_word(guess, answer) ==
    guess_word_from(guess, answer, 1, [pos \in 1..WordLen |-> Empty])

(***************************************************************************)
(* Candidate filter                                                        *)
(***************************************************************************)
FoundLetter(letter, position, correct_location) ==
    [letter |-> letter, position |-> position, correct_location |-> correct_location]

Hint(omit, req, cand) ==
    [omit_letters |-> omit, req_letters |-> req, cand_letters |-> cand]

\* The loop over hint.cand_letters in is_candidate, from entry i on. Indexing
\* word.0 at a position past the end of the array panics.
RECURSIVE check_positions(_, _, _)
check_positions(word, cands, i) ==
    IF i > Len(cands)
    THEN Returned(TRUE)
    ELSE LET cand == cands[i] IN
         IF cand.position >= Len(word)
         THEN Panicked
         ELSE IF cand.correct_location
         THEN IF word[cand.position + 1] # cand.letter
              THEN Returned(FALSE)
              ELSE check_positions(word, cands, i + 1)
         ELSE IF word[cand.position + 1] = cand.letter
              THEN Returned(FALSE)
              ELSE check_positions(word, cands, i + 1)

\* The number of entries of s equal to c.
count_of(s, c) == Cardinality({i \in 1..Len(s) : s[i] = c})

\* is_candidate as it would be if req_letters were a multiset: a letter
\* required twice must occur twice.
is_candidate_CountCheck(word, hint) ==
    IF hint.omit_letters # <<>>
       /\ \E i \in 1..Len(word) : contains(hint.omit_letters, word[i])
    THEN Returned(FALSE)
    ELSE IF hint.req_letters # <<>>
            /\ ~ (\A j \in 1..Len(hint.req_letters) :
                      count_of(word, hint.req_letters[j])
                          >= count_of(hint.req_letters, hint.req_letters[j]))
    THEN Returned(FALSE)
    ELSE IF hint.cand_letters.some
    THEN check_positions(word, hint.cand_letters.val, 1)
    ELSE Returned(TRUE)

\* is_candidate as it would be with any in place of all in the req_letters test.
is_candidate_AnyRequired(word, hint) ==
    IF hint.omit_letters # <<>>
       /\ \E i \in 1..Len(word) : contains(hint.omit_letters, word[i])
    THEN Returned(FALSE)
    ELSE IF hint.req_letters # <<>>
            /\ ~ (\E j \in 1..Len(hint.req_letters) : contains(word, hint.req_letters[j]))
    THEN Returned(FALSE)
    ELSE IF hint.cand_letters.some
    THEN check_positions(word, hint.cand_letters.val, 1)
    ELSE Returned(TRUE)

is_candidate(word, hint) ==
    IF hint.omit_letters # <<>>
       /\ \E i \in 1..Len(word) : contains(hint.omit_letters, word[i])
    THEN Returned(FALSE)
    ELSE IF hint.req_letters # <<>>
            /\ ~ (\A j \in 1..Len(hint.req_letters) : contains(word, hint.req_letters[j]))
    THEN Returned(FALSE)
    ELSE IF hint.cand_letters.some
    THEN check_positions(word, hint.cand_letters.val, 1)
    ELSE Returned(TRUE)

\* The Hint solve() passes to suggest: cand_letters is None while the vector
\* is empty.
make_hint(omit, req, cand) ==
    Hint(omit, req, IF cand = <<>> THEN None ELSE Some(cand))

(***************************************************************************)
(* Frequency scorer                                                        *)
(***************************************************************************)
\* filter_candidates as it would be if each accepted word were put in front of
\* the ones collected before it.
RECURSIVE filter_candidates_Prepend(_, _, _, _)
filter_candidates_Prepend(hint, words_in, i, acc) ==
    IF i > Len(words_in)
    THEN Returned(acc)
    ELSE LET r == is_candidate(words_in[i], hint) IN
         IF r = Panicked
         THEN Panicked
         ELSE filter_candidates_Prepend(hint, words_in, i + 1,
                                        IF r[1] THEN <<words_in[i]>> \o acc ELSE acc)

\* words.iter().filter(|&word| is_candidate(word, &hint)).copied().collect()
RECURSIVE filter_candidates(_, _, _, _)
filter_candidates(hint, words_in, i, acc) ==
    IF i > Len(words_in)
    THEN Returned(acc)
    ELSE LET r == is_candidate(words_in[i], hint) IN
         IF r = Panicked
         THEN Panicked
         ELSE filter_candidates(hint, words_in, i + 1,
                                IF r[1] THEN Append(acc, words_in[i]) ELSE acc)

\* The letter histogram: every occurrence of every letter of every word.
letter_freq(ws) ==
    [letter \in {ws[i][p] : i \in 1..Len(ws), p \in 1..WordLen} |->
        Cardinality({ip \in (1..Len(ws)) \X (1..WordLen) : ws[ip[1]][ip[2]] = letter})]

RECURSIVE sum_over(_, _)
sum_over(f, S) ==
    IF S = {} THEN 0
    ELSE LET x == CHOOSE y \in S : TRUE IN f[x] + sum_over(f, S \ {x})

\* word_key as it would be without unique(): a repeated letter counts at
\* each of its occurrences.
word_key_NoUnique(freq, w) ==
    0 - sum_over([p \in 1..WordLen |-> freq[w[p]]], 1..WordLen)

\* word.0.iter().unique().map(|c| -freq.get(&c).unwrap()).sum()
word_key(freq, w) == 0 - sum_over(freq, {w[p] : p \in 1..WordLen})

\* The BTreeMap<i32, Vec<Word>>: key -> the words of that key, in pool order.
score_map(ws) ==
    LET freq == letter_freq(ws) IN
    [k \in {word_key(freq, ws[i]) : i \in 1..Len(ws)} |->
        SelectSeq(ws, LAMBDA w : word_key(freq, w) = k)]

\* suggest as it would be if it returned the pool it was given (the parameter
\* words, which the filtered list shadows) instead of the filtered list.
suggest_ReturnsInput(hint, words_in) ==
    LET f == filter_candidates(hint, words_in, 1, <<>>) IN
    IF f = Panicked
    THEN Panicked
    ELSE Returned([words |-> words_in, scores |-> score_map(f[1])])

\* suggest: Panicked, or Returned of the record (words, scores).
suggest(hint, words_in) ==
    LET f == filter_candidates(hint, words_in, 1, <<>>) IN
    IF f = Panicked
    THEN Panicked
    ELSE Returned([words |-> f[1], scores |-> score_map(f[1])])

\* The keys of a BTreeMap in iteration (ascending) order.
RECURSIVE ascending(_)
ascending(S) ==
    IF S = {} THEN <<>>
    ELSE LET m == CHOOSE x \in S : \A y \in S : x <= y IN <<m>> \o ascending(S \ {m})

Reverse(s) == [i \in 1..Len(s) |-> s[Len(s) + 1 - i]]

\* display_suggestions as it would be with rev() before take(): the groups
\* of the last keys of the map.
display_suggestions_RevBeforeTake(sc) ==
    LET keys == Reverse(ascending(DOMAIN sc))
        shown == SubSeq(keys, 1, Min(DisplayTake, Len(keys)))
    IN  [i \in 1..Len(shown) |-> <<0 - shown[i], sc[shown[i]]>>]

\* display_suggestions: the lines printed, as <<number printed, words>>.
display_suggestions(sc) ==
    LET keys == ascending(DOMAIN sc)
        taken == SubSeq(keys, 1, Min(DisplayTake, Len(keys)))
        shown == Reverse(taken)
    IN  [i \in 1..Len(shown) |-> <<0 - shown[i], sc[shown[i]]>>]

(***************************************************************************)
(* The word lists. build.rs writes WORDS_USED and WORDS_XTRA from two text  *)
(* files, one word per line; the lists below stand for their contents.      *)
(***************************************************************************)
W(c1, c2, c3, c4, c5) == Str(<<c1, c2, c3, c4, c5>>)

WORDS_USED ==
    << W("c","r","a","n","e"), W("b","l","a","s","t"), W("c","o","c","k","y"),
       W("z","e","b","r","a"), W("c","o","u","l","d"), W("s","p","o","o","l"),
       W("c","a","b","l","e"), W("c","l","i","f","f") >>

WORDS_XTRA ==
    << W("c","i","v","i","c"), W("a","b","a","c","a") >>

Unwrap(seq_of_results) == [i \in 1..Len(seq_of_results) |-> seq_of_results[i].val]

\* The pool solve() builds before its loop.
InitialPool(more_words) ==
    LET strs == IF more_words THEN WORDS_USED \o WORDS_XTRA ELSE WORDS_USED
    IN  Unwrap([i \in 1..Len(strs) |-> Word_try_from(strs[i])])

(***************************************************************************)
(* State                                                                   *)
(***************************************************************************)
VARIABLES
    opt,            \* the command line: [cmd, more_words]
    exit_status,    \* "running", "success", "failure" (main returned Err) or "panic"
    printed,        \* what the last step wrote to the terminal
    answer,         \* play: the secret Word
    guess_no,       \* play: the loop variable of for guess_no in 1..=MAX_GUESSES
    results,        \* play: the log of GuessResults
    omit_letters,   \* solve: Vec<char>
    req_letters,    \* solve: Vec<char>
    cand_letters,   \* solve: Vec<FoundLetter>
    words,          \* solve: the working pool
    scores,         \* solve: the score map of the last suggest call
    guess,          \* evaluator: the guess last evaluated
    word,           \* filter: the word under test
    ret,            \* evaluator / filter: the value last returned
    last_line,      \* solve: the feedback line readline returned last
    valid_lines,    \* lines accepted so far (parsed guesses, accepted feedback lines)
    invalid_lines,  \* lines rejected so far
    input_failed    \* readline has returned Err

vars == << opt, exit_status, printed, answer, guess_no, results, omit_letters,
           req_letters, cand_letters, words, scores, guess, word, ret,
           last_line, valid_lines, invalid_lines, input_failed >>

play_vars == << answer, guess_no, results >>
solve_vars == << omit_letters, req_letters, cand_letters, words, scores >>
fn_vars == << guess, word, ret >>

\* A terminal message: its kind, a number and a text or list where it has one.
Msg(kind, num, text) == [kind |-> kind, num |-> num, text |-> text]

Opt_Play == [cmd |-> "Play", more_words |-> FALSE]
Opt_Solve(more_words) == [cmd |-> "Solve", more_words |-> more_words]

PlayIdle == answer = Word_default /\ guess_no = 1 /\ results = <<>>

SolveIdle ==
    /\ omit_letters = <<>>
    /\ req_letters = <<>>
    /\ cand_letters = <<>>
    /\ words = <<>>
    /\ scores = << >>

FnIdle == guess = Word_default /\ word = Word_default /\ ret = <<>>

(***************************************************************************)
(* Play: main's Opt::Play arm and play(). The program blocks in readline;   *)
(* each action is one line read and everything the code does up to the next *)
(* readline or to the end of main.                                          *)
(***************************************************************************)
\* Bound on the rejected lines of a run.
MaxInvalidLines == 2

PlayLines ==
    { Str(<<"z","e","b","r","a">>), Str(<<"Z","E","B","R","A">>),
      Str(<<"c","r","a","n","e">>), Str(<<"b","l","a","s","t">>),
      Str(<<"z","e","b">>), Str(<<"z","e","b","r","a","s">>), <<>> }

\* random_answer(): any element of WORDS_USED.
random_answer == { Word_try_from(WORDS_USED[i]).val : i \in 1..Len(WORDS_USED) }

PlayInit ==
    /\ opt = Opt_Play
    /\ exit_status = "running"
    /\ printed = <<>>
    /\ answer \in random_answer
    /\ guess_no = 1
    /\ results = <<>>
    /\ last_line = <<>>
    /\ valid_lines = 0
    /\ invalid_lines = 0
    /\ input_failed = FALSE
    /\ SolveIdle
    /\ FnIdle

AwaitGuess == opt.cmd = "Play" /\ exit_status = "running"

\* for (i, result) in results.iter().enumerate() { println!("{}. {}", i, result) }
results_lines(rs) == [i \in 1..Len(rs) |-> Msg("result", i - 1, rs[i])]

\* main: Err(_) => println!("Better luck next time.  The answer was ...")
better_luck(ans) == Msg("Better luck next time.  The answer was", 0, Word_fmt(ans))

\* main: Ok(guesses) => println!("Good job! It took you {} guesses", guesses)
good_job(guesses) == Msg("Good job! It took you guesses", guesses, <<>>)

\* PlayInvalidGuess as it would be if a rejected line used up a round.
PlayInvalidGuess_ConsumesRound(line) ==
    /\ AwaitGuess
    /\ invalid_lines < MaxInvalidLines
    /\ ~ Word_try_from(line).ok
    /\ guess_no < MAX_GUESSES
    /\ guess_no' = guess_no + 1
    /\ printed' = << Msg("Invalid guess.", 0, <<>>) >>
    /\ invalid_lines' = invalid_lines + 1
    /\ UNCHANGED << opt, exit_status, answer, results, solve_vars, fn_vars,
                    last_line, valid_lines, input_failed >>

\* Err(_) of Word::try_from: "Invalid guess.", continue 'try_guess.
PlayInvalidGuess(line) ==
    /\ AwaitGuess
    /\ invalid_lines < MaxInvalidLines
    /\ ~ Word_try_from(line).ok
    /\ printed' = << Msg("Invalid guess.", 0, <<>>) >>
    /\ invalid_lines' = invalid_lines + 1
    /\ UNCHANGED << opt, exit_status, play_vars, solve_vars, fn_vars,
                    last_line, valid_lines, input_failed >>

\* PlayCorrectGuess as it would be if the score were the 0-based log index.
PlayCorrectGuess_ZeroBased(line) ==
    /\ AwaitGuess
    /\ Word_try_from(line).ok
    /\ Word_try_from(line).val = answer
    /\ printed' = << Msg("Correct!  It was", 0, Word_fmt(answer)), good_job(Len(results)) >>
    /\ exit_status' = "success"
    /\ valid_lines' = valid_lines + 1
    /\ UNCHANGED << opt, play_vars, solve_vars, fn_vars, last_line,
                    invalid_lines, input_failed >>

\* guess == answer: play returns Ok(guess_no), main prints the score.
PlayCorrectGuess(line) ==
    /\ AwaitGuess
    /\ Word_try_from(line).ok
    /\ Word_try_from(line).val = answer
    /\ printed' = << Msg("Correct!  It was", 0, Word_fmt(answer)), good_job(guess_no) >>
    /\ exit_status' = "success"
    /\ valid_lines' = valid_lines + 1
    /\ UNCHANGED << opt, play_vars, solve_vars, fn_vars, last_line,
                    invalid_lines, input_failed >>

\* PlayWrongGuess as it would be if the loop ran over 1..=MAX_GUESSES + 1.
PlayWrongGuess_ExtraRound(line) ==
    /\ AwaitGuess
    /\ Word_try_from(line).ok
    /\ Word_try_from(line).val # answer
    /\ LET gr == guess_word(Word_try_from(line).val, answer)
           log == Append(results, gr)
       IN  /\ results' = log
           /\ IF guess_no <= MAX_GUESSES
              THEN /\ guess_no' = guess_no + 1
                   /\ printed' = results_lines(log)
                   /\ exit_status' = exit_status
              ELSE /\ guess_no' = guess_no
                   /\ printed' = Append(results_lines(log), better_luck(answer))
                   /\ exit_status' = "success"
    /\ valid_lines' = valid_lines + 1
    /\ UNCHANGED << opt, answer, solve_vars, fn_vars, last_line,
                    invalid_lines, input_failed >>

\* guess != answer: the result is logged and the log printed; after the last
\* round the for loop ends, play returns Err and main reveals the answer.
PlayWrongGuess(line) ==
    /\ AwaitGuess
    /\ Word_try_from(line).ok
    /\ Word_try_from(line).val # answer
    /\ LET gr == guess_word(Word_try_from(line).val, answer)
           log == Append(results, gr)
       IN  /\ results' = log
           /\ IF guess_no < MAX_GUESSES
              THEN /\ guess_no' = guess_no + 1
                   /\ printed' = results_lines(log)
                   /\ exit_status' = exit_status
              ELSE /\ guess_no' = guess_no
                   /\ printed' = Append(results_lines(log), better_luck(answer))
                   /\ exit_status' = "success"
    /\ valid_lines' = valid_lines + 1
    /\ UNCHANGED << opt, answer, solve_vars, fn_vars, last_line,
                    invalid_lines, input_failed >>

\* rl.readline(..)? returns the Err from play; main's Err(_) arm takes it.
PlayReadlineError ==
    /\ AwaitGuess
    /\ printed' = << better_luck(answer) >>
    /\ exit_status' = "success"
    /\ input_failed' = TRUE
    /\ UNCHANGED << opt, play_vars, solve_vars, fn_vars, last_line,
                    valid_lines, invalid_lines >>

PlayNext ==
    \/ \E line \in PlayLines : PlayInvalidGuess(line)
    \/ \E line \in PlayLines : PlayCorrectGuess(line)
    \/ \E line \in PlayLines : PlayWrongGuess(line)
    \/ PlayReadlineError

SpecPlay == PlayInit /\ [][PlayNext]_vars

(***************************************************************************)
(* Solve: main's Opt::Solve arm and solve(). The program blocks in          *)
(* readline("Result: "); each action is one line read and everything the    *)
(* code does up to the next readline or to the end of the process.          *)
(***************************************************************************)
\* Bound on the accepted feedback lines of a run.
MaxRounds == 2

FeedbackLines ==
    { Str(<<"C","!","r","!","a","!","n","!","e">>),
      Str(<<"!","b","l","A","backtick","s","'","t">>),
      Str(<<"c","O","!","Z","d","!">>),
      Str(<<"!","x","!","x","!","x","!","x","!","x","c">>),
      Str(<<"B">>),
      Str(<<"a","?">>),
      Str(<<"C","!","x","!","x","!","x","!","x","c"," ">>),
      <<>> }

\* The match arms of the loop: '!' | '`' | '\'', 'a'..='z', 'A'..='Z'.
NegationMarkers == {Ord("!"), Ord("backtick"), Ord("'")}
LowerLetters == Ord("a")..Ord("z")
UpperLetters == Ord("A")..Ord("Z")

\* The locals of the for loop over line.chars() and the three vectors.
FeedState(position, negate_next, omit, req, cand, rejected) ==
    [position |-> position, negate_next |-> negate_next, omit_letters |-> omit,
     req_letters |-> req, cand_letters |-> cand, rejected |-> rejected]

\* feed_chars as it would be if an uppercase letter were stored as typed.
RECURSIVE feed_chars_NoLowercase(_, _, _)
feed_chars_NoLowercase(line, i, st) ==
    IF i > Len(line)
    THEN st
    ELSE LET c == line[i] IN
         IF c \in NegationMarkers
         THEN feed_chars_NoLowercase(line, i + 1, [st EXCEPT !.negate_next = TRUE])
         ELSE IF c \in LowerLetters
         THEN feed_chars_NoLowercase(line, i + 1,
                 IF st.negate_next
                 THEN [st EXCEPT !.omit_letters = Append(@, c),
                                 !.negate_next = FALSE,
                                 !.position = @ + 1]
                 ELSE [st EXCEPT !.req_letters = Append(@, c),
                                 !.cand_letters = Append(@, FoundLetter(c, st.position, FALSE)),
                                 !.position = @ + 1])
         ELSE IF c \in UpperLetters
         THEN feed_chars_NoLowercase(line, i + 1,
                 [st EXCEPT !.req_letters = Append(@, c),
                            !.cand_letters = Append(@, FoundLetter(c, st.position, TRUE)),
                            !.position = @ + 1])
         ELSE [st EXCEPT !.rejected = TRUE]

\* The for loop over line.chars(), from char i on. A char outside the
\* grammar leaves the loop at once (continue 'input); what was pushed before
\* it stays pushed.
RECURSIVE feed_chars(_, _, _)
feed_chars(line, i, st) ==
    IF i > Len(line)
    THEN st
    ELSE LET c == line[i] IN
         IF c \in NegationMarkers
         THEN feed_chars(line, i + 1, [st EXCEPT !.negate_next = TRUE])
         ELSE IF c \in LowerLetters
         THEN feed_chars(line, i + 1,
                 IF st.negate_next
                 THEN [st EXCEPT !.omit_letters = Append(@, c),
                                 !.negate_next = FALSE,
                                 !.position = @ + 1]
                 ELSE [st EXCEPT !.req_letters = Append(@, c),
                                 !.cand_letters = Append(@, FoundLetter(c, st.position, FALSE)),
                                 !.position = @ + 1])
         ELSE IF c \in UpperLetters
         THEN feed_chars(line, i + 1,
                 [st EXCEPT !.req_letters = Append(@, to_ascii_lowercase(c)),
                            !.cand_letters = Append(@, FoundLetter(to_ascii_lowercase(c),
                                                                  st.position, TRUE)),
                            !.position = @ + 1])
         ELSE [st EXCEPT !.rejected = TRUE]

\* Ok(line) => { let mut position = 0; let mut negate_next = false; for ... }
read_feedback(line, omit, req, cand) ==
    feed_chars(line, 1, FeedState(0, FALSE, omit, req, cand, FALSE))


\* println! of display_suggestions: the header and one line per group shown.
suggestion_lines(sc) ==
    LET shown == display_suggestions(sc) IN
    << Msg("Suggestions, in ascending order of score:", 0, <<>>) >>
        \o [i \in 1..Len(shown) |-> Msg("suggestion", shown[i][1], shown[i][2])]

\* main up to the first readline of solve: the pool is built, the first
\* suggest call runs with the empty Hint and its suggestions are shown.
SolveInit ==
    /\ \E more_words \in BOOLEAN : opt = Opt_Solve(more_words)
    /\ exit_status = "running"
    /\ omit_letters = <<>>
    /\ req_letters = <<>>
    /\ cand_letters = <<>>
    /\ LET first == suggest(make_hint(<<>>, <<>>, <<>>), InitialPool(opt.more_words))[1]
       IN  /\ words = first.words
           /\ scores = first.scores
           /\ printed = suggestion_lines(first.scores)
    /\ last_line = <<>>
    /\ valid_lines = 0
    /\ invalid_lines = 0
    /\ input_failed = FALSE
    /\ PlayIdle
    /\ FnIdle

AwaitFeedback == opt.cmd = "Solve" /\ exit_status = "running"

\* A line with a char outside the grammar: "Invalid entry", continue 'input.
SolveRejectedLine(line) ==
    /\ AwaitFeedback
    /\ invalid_lines < MaxInvalidLines
    /\ LET st == read_feedback(line, omit_letters, req_letters, cand_letters)
       IN  /\ st.rejected
           /\ omit_letters' = st.omit_letters
           /\ req_letters' = st.req_letters
           /\ cand_letters' = st.cand_letters
    /\ printed' = << Msg("Invalid entry", 0, <<>>) >>
    /\ last_line' = line
    /\ invalid_lines' = invalid_lines + 1
    /\ UNCHANGED << opt, exit_status, words, scores, play_vars, fn_vars,
                    valid_lines, input_failed >>

\* A line of the grammar: the for loop ends, break leaves 'input, and the
\* outer loop runs suggest and display_suggestions and adopts the new pool.
\* A panic in suggest ends the process before anything is printed or stored.
SolveAcceptedLine(line) ==
    /\ AwaitFeedback
    /\ valid_lines < MaxRounds
    /\ LET st == read_feedback(line, omit_letters, req_letters, cand_letters)
           sug == suggest(make_hint(st.omit_letters, st.req_letters, st.cand_letters), words)
       IN  /\ ~ st.rejected
           /\ omit_letters' = st.omit_letters
           /\ req_letters' = st.req_letters
           /\ cand_letters' = st.cand_letters
           /\ IF sug = Panicked
              THEN /\ exit_status' = "panic"
                   /\ printed' = << Msg("thread 'main' panicked", 0, <<>>) >>
                   /\ UNCHANGED << words, scores >>
              ELSE /\ exit_status' = exit_status
                   /\ words' = sug[1].words
                   /\ scores' = sug[1].scores
                   /\ printed' = suggestion_lines(sug[1].scores)
    /\ last_line' = line
    /\ valid_lines' = valid_lines + 1
    /\ UNCHANGED << opt, play_vars, fn_vars, invalid_lines, input_failed >>

\* Err(e) => return Err(anyhow!("Error: {}", e)); main's `?` returns it.
SolveReadlineError ==
    /\ AwaitFeedback
    /\ exit_status' = "failure"
    /\ printed' = << Msg("Error:", 0, <<>>) >>
    /\ input_failed' = TRUE
    /\ UNCHANGED << opt, solve_vars, play_vars, fn_vars, last_line,
                    valid_lines, invalid_lines >>

SolveNext ==
    \/ \E line \in FeedbackLines : SolveRejectedLine(line)
    \/ \E line \in FeedbackLines : SolveAcceptedLine(line)
    \/ SolveReadlineError

SpecSolve == SolveInit /\ [][SolveNext]_vars

(***************************************************************************)
(* Play: properties                                                        *)
(***************************************************************************)
LastPrinted == printed[Len(printed)]

\* The session has ended with the "Good job!" report.
Won ==
    /\ opt.cmd = "Play"
    /\ exit_status # "running"
    /\ printed # <<>>
    /\ LastPrinted.kind = "Good job! It took you guesses"

\* The session has ended with the "Better luck next time" report, which
\* shows the answer.
Lost ==
    /\ opt.cmd = "Play"
    /\ exit_status # "running"
    /\ printed # <<>>
    /\ LastPrinted = better_luck(answer)

\* C1: once six parsed guesses have all differed from the answer the session
\* is Lost and the answer is shown; the program is then no longer waiting for
\* a guess, and a seventh parsed guess is never taken.
C1_LostAfterSixMisses ==
    opt.cmd = "Play" =>
        /\ valid_lines <= 6
        /\ Len(results) <= 6
        /\ (valid_lines = 6 /\ Len(results) = 6) =>
               (Lost /\ ~ AwaitGuess /\ LastPrinted.text = Word_fmt(answer))

C1_Witness ==
    /\ Lost
    /\ Len(results) = 6
    /\ valid_lines = 6
    /\ invalid_lines > 0
    /\ ~ input_failed

\* C2: a session that is Won reports as its score the number of parsed
\* guesses made, the matching one included, which is the round number, a
\* number in 1..6; rejected lines are not counted.
C2_ScoreIsRound ==
    Won =>
        /\ LastPrinted.num = valid_lines
        /\ LastPrinted.num = guess_no
        /\ LastPrinted.num = Len(results) + 1
        /\ LastPrinted.num \in 1..6

C2_Witness ==
    /\ Won
    /\ LastPrinted.num = 3
    /\ invalid_lines = 2

\* C3: a step that rejects a guess line changes neither the round number nor
\* the results log (nor the answer, the count of parsed guesses or whether
\* the session is over).
C3_InvalidGuessKeepsRound ==
    [][ (opt.cmd = "Play" /\ invalid_lines' = invalid_lines + 1) =>
            /\ guess_no' = guess_no
            /\ results' = results
            /\ answer' = answer
            /\ valid_lines' = valid_lines
            /\ exit_status' = exit_status ]_vars

\* Two lines were rejected and parsed guesses still went through afterwards,
\* each in the round the count of parsed guesses gives.
C3_Witness ==
    /\ AwaitGuess
    /\ invalid_lines = 2
    /\ valid_lines = 2
    /\ guess_no = 3
    /\ Len(results) = 2

\* C5 (as claimed): after readline has failed the process has failed, and the
\* failure is not reported as a game won or lost.
C5_InputFailureIsFatal ==
    input_failed => (exit_status = "failure" /\ ~ Won /\ ~ Lost)

(***************************************************************************)
(* Solve: properties                                                       *)
(***************************************************************************)
\* The Hint as the next suggest call would see it.
CurrentHint == make_hint(omit_letters, req_letters, cand_letters)

\* s lists elements of t in the order of t: s is t with some entries dropped.
RECURSIVE IsSubsequence(_, _)
IsSubsequence(s, t) ==
    IF s = <<>> THEN TRUE
    ELSE IF t = <<>> THEN FALSE
    ELSE IF Head(s) = Head(t) THEN IsSubsequence(Tail(s), Tail(t))
    ELSE IsSubsequence(s, Tail(t))

\* C4 (as claimed): a step that rejects a feedback line leaves omit_letters,
\* req_letters and cand_letters as they were.
C4_RejectedLineKeepsHint ==
    [][ (opt.cmd = "Solve" /\ invalid_lines' = invalid_lines + 1) =>
            /\ omit_letters' = omit_letters
            /\ req_letters' = req_letters
            /\ cand_letters' = cand_letters ]_vars

\* C8: the pool never gets longer, and the pool after a round is the pool
\* before it with exactly the words dropped that is_candidate does not accept
\* under the Hint as it stands after the line of that round, the others kept
\* in their order. Before the first line the pool is the initial pool.
C8_PoolShrinksByFilter ==
    [][ opt.cmd = "Solve" =>
            /\ Len(words') <= Len(words)
            /\ (valid_lines' = valid_lines + 1 /\ exit_status' = "running") =>
                   /\ IsSubsequence(words', words)
                   /\ words' = SelectSeq(words,
                          LAMBDA w : is_candidate(w, CurrentHint') = Returned(TRUE))
            /\ valid_lines' = valid_lines => words' = words ]_vars

\* A round has completed in which the pool lost some but not all of its words.
C8_Witness ==
    /\ AwaitFeedback
    /\ valid_lines = 2
    /\ 0 < Len(words)
    /\ Len(words) < Len(InitialPool(opt.more_words)) - 1
    /\ cand_letters # <<>>

CraneLine == Str(<<"C","!","r","!","a","!","n","!","e">>)

has_letter(w, ch) == \E p \in 1..WordLen : w[p] = Ord(ch)

\* C9: when C!r!a!n!e is the only line read so far, the pool is the initial
\* pool restricted to the words that start with 'c' and contain none of 'r',
\* 'a', 'n', 'e'; "crane" and "blast" are not in it.
C9_CraneScenario ==
    (/\ opt.cmd = "Solve"
     /\ valid_lines = 1
     /\ invalid_lines = 0
     /\ last_line = CraneLine) =>
        /\ exit_status # "panic"
        /\ words = SelectSeq(InitialPool(opt.more_words),
                      LAMBDA w : /\ w[1] = Ord("c")
                                 /\ ~ has_letter(w, "r")
                                 /\ ~ has_letter(w, "a")
                                 /\ ~ has_letter(w, "n")
                                 /\ ~ has_letter(w, "e"))
        /\ \A i \in 1..Len(words) :
              /\ words[i] # W("c","r","a","n","e")
              /\ words[i] # W("b","l","a","s","t")

C9_Witness ==
    /\ opt.cmd = "Solve"
    /\ opt.more_words
    /\ valid_lines = 1
    /\ invalid_lines = 0
    /\ last_line = CraneLine
    /\ words = << W("c","o","c","k","y"), W("c","o","u","l","d"),
                  W("c","l","i","f","f"), W("c","i","v","i","c") >>

(***************************************************************************)
(* is_candidate on its own: a word is drawn, the Hint starts empty and      *)
(* grows by one entry per step, as it does across the rounds of solve();    *)
(* ret is what is_candidate returns for the word under the Hint.            *)
(***************************************************************************)
\* Bound on the entries of the Hint (the three vectors together).
MaxHintLen == 3

CandWords ==
    { W("c","r","a","n","e"), W("c","o","c","k","y"), W("b","l","a","s","t") }

HintLetters == { Ord("a"), Ord("c") }

\* FoundLetter.position: positions of the word (the first, the middle and
\* the last one; in CandWords the letters of HintLetters occur at 0 and 2
\* only), and 5, which the sixth letter of a feedback line gets.
Positions == {0, 2, WordLen - 1, WordLen}

HintLen == Len(omit_letters) + Len(req_letters) + Len(cand_letters)

CandidateInit ==
    /\ opt = [cmd |-> "is_candidate", more_words |-> FALSE]
    /\ exit_status = "running"
    /\ printed = <<>>
    /\ word \in CandWords
    /\ omit_letters = <<>>
    /\ req_letters = <<>>
    /\ cand_letters = <<>>
    /\ ret = is_candidate(word, make_hint(<<>>, <<>>, <<>>))
    /\ guess = Word_default
    /\ words = <<>>
    /\ scores = << >>
    /\ last_line = <<>>
    /\ valid_lines = 0
    /\ invalid_lines = 0
    /\ input_failed = FALSE
    /\ PlayIdle

\* omit_letters.push(c)
PushOmit(c) ==
    /\ opt.cmd = "is_candidate"
    /\ HintLen < MaxHintLen
    /\ omit_letters' = Append(omit_letters, c)
    /\ ret' = is_candidate(word, make_hint(omit_letters', req_letters, cand_letters))
    /\ UNCHANGED << opt, exit_status, printed, play_vars, req_letters, cand_letters,
                    words, scores, guess, word, last_line, valid_lines,
                    invalid_lines, input_failed >>

\* req_letters.push(c)
PushReq(c) ==
    /\ opt.cmd = "is_candidate"
    /\ HintLen < MaxHintLen
    /\ req_letters' = Append(req_letters, c)
    /\ ret' = is_candidate(word, make_hint(omit_letters, req_letters', cand_letters))
    /\ UNCHANGED << opt, exit_status, printed, play_vars, omit_letters, cand_letters,
                    words, scores, guess, word, last_line, valid_lines,
                    invalid_lines, input_failed >>

\* cand_letters.push(FoundLetter { letter, position, correct_location })
PushCand(letter, position, correct_location) ==
    /\ opt.cmd = "is_candidate"
    /\ HintLen < MaxHintLen
    /\ cand_letters' = Append(cand_letters, FoundLetter(letter, position, correct_location))
    /\ ret' = is_candidate(word, make_hint(omit_letters, req_letters, cand_letters'))
    /\ UNCHANGED << opt, exit_status, printed, play_vars, omit_letters, req_letters,
                    words, scores, guess, word, last_line, valid_lines,
                    invalid_lines, input_failed >>

CandidateNext ==
    \/ \E c \in HintLetters : PushOmit(c)
    \/ \E c \in HintLetters : PushReq(c)
    \/ \E c \in HintLetters, p \in Positions, b \in BOOLEAN : PushCand(c, p, b)

SpecCandidate == CandidateInit /\ [][CandidateNext]_vars

\* The three conditions of the candidate filter, stated over the vectors.
NoOmitted == \A i \in 1..Len(omit_letters) : \A p \in 1..WordLen : word[p] # omit_letters[i]

AllRequired == \A j \in 1..Len(req_letters) : \E p \in 1..WordLen : word[p] = req_letters[j]

PositionsAgree ==
    \A k \in 1..Len(cand_letters) :
        IF cand_letters[k].correct_location
        THEN word[cand_letters[k].position + 1] = cand_letters[k].letter
        ELSE word[cand_letters[k].position + 1] # cand_letters[k].letter

\* Every FoundLetter of cand_letters has a position of the word, 0..4.
PositionsInWord ==
    \A k \in 1..Len(cand_letters) : cand_letters[k].position \in 0..(WordLen - 1)

\* C6: for a Hint whose FoundLetters have positions 0..4, is_candidate
\* returns, and it returns true exactly when the word has no letter of
\* omit_letters, has every letter of req_letters at least once, and agrees
\* with every FoundLetter of cand_letters; an empty vector constrains nothing.
C6_IsCandidateIffThree ==
    (opt.cmd = "is_candidate" /\ PositionsInWord) =>
        ret = Returned(NoOmitted /\ AllRequired /\ PositionsAgree)

\* A word accepted under a Hint whose three vectors are all non-empty, one
\* letter being required twice while the word has it once.
C6_Witness ==
    /\ opt.cmd = "is_candidate"
    /\ word = W("c","r","a","n","e")
    /\ req_letters = << Ord("a"), Ord("a") >>
    /\ cand_letters = << FoundLetter(Ord("c"), 0, TRUE) >>
    /\ ret = Returned(TRUE)

\* t is s with one entry appended.
OneAppended(s, t) == Len(t) = Len(s) + 1 /\ SubSeq(t, 1, Len(s)) = s

\* C10: every step appends one entry to one of the three vectors, and a word
\* is_candidate rejects before the step it rejects after it.
C10_RejectionIsPermanent ==
    [][ opt.cmd = "is_candidate" =>
            /\ \/ /\ OneAppended(omit_letters, omit_letters')
                  /\ UNCHANGED << req_letters, cand_letters >>
               \/ /\ OneAppended(req_letters, req_letters')
                  /\ UNCHANGED << omit_letters, cand_letters >>
               \/ /\ OneAppended(cand_letters, cand_letters')
                  /\ UNCHANGED << omit_letters, req_letters >>
            /\ word' = word
            /\ ret = Returned(FALSE) => ret' = Returned(FALSE) ]_vars

\* A word rejected for a missing required letter, with entries appended after
\* the rejection that the word satisfies.
C10_Witness ==
    /\ opt.cmd = "is_candidate"
    /\ word = W("c","o","c","k","y")
    /\ req_letters = << Ord("a"), Ord("c") >>
    /\ cand_letters = << FoundLetter(Ord("c"), 0, TRUE) >>
    /\ ret = Returned(FALSE)

(***************************************************************************)
(* guess_word on its own: an answer is drawn and one guess is evaluated     *)
(* against it; ret is the result array, all Empty before the call.          *)
(***************************************************************************)
EvalWords ==
    [1..WordLen -> {Ord("a"), Ord("b"), Ord("c")}]
        \cup { W("a","a","b","b","c"), W("d","d","a","e","e"),
               W("a","b","c","d","e"), W("b","a","c","f","e") }

EvaluateInit ==
    /\ opt = [cmd |-> "guess_word", more_words |-> FALSE]
    /\ exit_status = "running"
    /\ printed = <<>>
    /\ answer \in EvalWords
    /\ guess = Word_default
    /\ ret = [pos \in 1..WordLen |-> Empty]
    /\ guess_no = 1
    /\ results = <<>>
    /\ word = Word_default
    /\ last_line = <<>>
    /\ valid_lines = 0
    /\ invalid_lines = 0
    /\ input_failed = FALSE
    /\ SolveIdle

\* let gr = guess_word(guess, answer);
Evaluate(g) ==
    /\ opt.cmd = "guess_word"
    /\ guess = Word_default
    /\ guess' = g
    /\ ret' = guess_word(g, answer)
    /\ UNCHANGED << opt, exit_status, printed, play_vars, solve_vars, word,
                    last_line, valid_lines, invalid_lines, input_failed >>

EvaluateNext == \E g \in EvalWords : Evaluate(g)

SpecEvaluate == EvaluateInit /\ [][EvaluateNext]_vars

Evaluated == opt.cmd = "guess_word" /\ guess # Word_default

\* C7: after an evaluation each position i holds Correct(guess[i]) if
\* guess[i] = answer[i], else Present(guess[i]) if guess[i] is a letter of the
\* answer, else Incorrect(guess[i]), and none is Empty; both 'a's of "aabbc"
\* against "ddaee" are Present, and a guess equal to the answer is all Correct.
C7_EvaluatePerPosition ==
    Evaluated =>
        /\ \A i \in 1..WordLen :
              /\ ret[i].tag # "Empty"
              /\ ret[i].c = guess[i]
              /\ ret[i].tag = "Correct" <=> guess[i] = answer[i]
              /\ ret[i].tag = "Present" <=>
                     (guess[i] # answer[i] /\ guess[i] \in {answer[p] : p \in 1..WordLen})
              /\ ret[i].tag = "Incorrect" <=>
                     guess[i] \notin {answer[p] : p \in 1..WordLen}
        /\ (guess = W("a","a","b","b","c") /\ answer = W("d","d","a","e","e")) =>
               (ret[1] = Present(Ord("a")) /\ ret[2] = Present(Ord("a")))
        /\ guess = answer => \A i \in 1..WordLen : ret[i] = Correct(guess[i])

C7_Witness ==
    /\ Evaluated
    /\ guess = W("a","a","b","b","c")
    /\ answer = W("d","d","a","e","e")
    /\ ret = << Present(Ord("a")), Present(Ord("a")), Incorrect(Ord("b")),
                Incorrect(Ord("b")), Incorrect(Ord("c")) >>

(***************************************************************************)
(* Filter and scorer: properties                                           *)
(***************************************************************************)
\* The filter pass of suggest on its own (the spec's filter_pool).
filter_pool(pool, hint) == filter_candidates(hint, pool, 1, <<>>)

\* Pools the filter is tried on in every state besides the working pool: a
\* word list as loaded, and a list in the opposite order followed by words it
\* already has.
FixedPools ==
    { InitialPool(TRUE), Reverse(InitialPool(TRUE)) \o InitialPool(FALSE) }

\* C11: wherever the filter returns, filtering its result again under the
\* same Hint changes nothing, and the result lists exactly the accepted
\* entries of the pool in the order they have in the pool.
C11_FilterIdempotent ==
    opt.cmd = "Solve" =>
        LET hint == CurrentHint IN
        \A pool \in FixedPools \cup {words} :
            LET once == filter_pool(pool, hint) IN
            once # Panicked =>
                /\ filter_pool(once[1], hint) = once
                /\ once[1] = SelectSeq(pool, LAMBDA w : is_candidate(w, hint) = Returned(TRUE))

\* A Hint with entries in all three vectors under which the filter keeps
\* some words of the full list and drops others.
C11_Witness ==
    /\ opt.cmd = "Solve"
    /\ omit_letters # <<>>
    /\ req_letters # <<>>
    /\ cand_letters # <<>>
    /\ LET once == filter_pool(InitialPool(TRUE), CurrentHint) IN
       /\ once # Panicked
       /\ Len(once[1]) >= 2
       /\ Len(once[1]) < Len(InitialPool(TRUE))

\* The sum of the numbers of a sequence.
RECURSIVE seq_sum(_)
seq_sum(s) == IF s = <<>> THEN 0 ELSE Head(s) + seq_sum(Tail(s))

\* How often the letter occurs in the pool, repeats within a word included.
occurrences(pool, letter) ==
    seq_sum([i \in 1..Len(pool) |-> count_of(pool[i], letter)])

\* The score of a word in a pool: the occurrences of each of its distinct
\* letters, each letter taken once.
RECURSIVE score_from(_, _, _)
score_from(pool, w, p) ==
    IF p > WordLen THEN 0
    ELSE (IF \E q \in 1..(p - 1) : w[q] = w[p] THEN 0 ELSE occurrences(pool, w[p]))
         + score_from(pool, w, p + 1)

true_score(pool, w) == score_from(pool, w, 1)

\* C12: the score map of the last suggest call partitions the pool: each
\* group is filed under the negated score of its words, the score being the
\* sum over the word's distinct letters of all occurrences of the letter in
\* the pool; each group lists its words in pool order; every word of the pool
\* is in the group of its score, and the groups together hold as many words
\* as the pool.
C12_ScoresPartitionPool ==
    opt.cmd = "Solve" =>
        /\ \A k \in DOMAIN scores :
              /\ scores[k] # <<>>
              /\ IsSubsequence(scores[k], words)
              /\ \A j \in 1..Len(scores[k]) : true_score(words, scores[k][j]) = 0 - k
        /\ \A i \in 1..Len(words) :
              LET k == 0 - true_score(words, words[i]) IN
              /\ k \in DOMAIN scores
              /\ contains(scores[k], words[i])
        /\ sum_over([k \in DOMAIN scores |-> Len(scores[k])], DOMAIN scores) = Len(words)

\* After a round: several groups, one of them with two words, and a word with
\* a repeated letter in the pool.
C12_Witness ==
    /\ AwaitFeedback
    /\ valid_lines >= 1
    /\ Cardinality(DOMAIN scores) >= 2
    /\ \E k \in DOMAIN scores : Len(scores[k]) >= 2
    /\ \E i \in 1..Len(words) : \E p, q \in 1..WordLen : p # q /\ words[i][p] = words[i][q]

(***************************************************************************)
(* Word::try_from on its own: a string is drawn and parsed once; last_line  *)
(* is the string and ret the Result, empty before the call.                 *)
(***************************************************************************)
\* Bound on the length in chars of the strings parsed.
MaxStrLen == 6

\* The chars of the strings parsed: a lowercase and an uppercase ASCII letter
\* and a letter of two bytes.
ParseChars == { Ord("a"), Ord("Z"), Ord("e'") }

ParseStrings == UNION { [1..n -> ParseChars] : n \in 0..MaxStrLen }

ParseInit ==
    /\ opt = [cmd |-> "Word::try_from", more_words |-> FALSE]
    /\ exit_status = "running"
    /\ printed = <<>>
    /\ last_line \in ParseStrings
    /\ valid_lines = 0
    /\ invalid_lines = 0
    /\ input_failed = FALSE
    /\ PlayIdle
    /\ SolveIdle
    /\ FnIdle

\* Word::try_from(value)
Parse ==
    /\ opt.cmd = "Word::try_from"
    /\ valid_lines + invalid_lines = 0
    /\ ret' = Word_try_from(last_line)
    /\ valid_lines' = IF ret'.ok THEN 1 ELSE 0
    /\ invalid_lines' = IF ret'.ok THEN 0 ELSE 1
    /\ UNCHANGED << opt, exit_status, printed, play_vars, solve_vars, guess,
                    word, last_line, input_failed >>

ParseNext == Parse

SpecParse == ParseInit /\ [][ParseNext]_vars

Parsed == opt.cmd = "Word::try_from" /\ valid_lines + invalid_lines = 1

\* C13: a string parses iff it has exactly 5 characters, and the Word then
\* displays as the string lowercased position by position.
C13_ParseFiveCharacters ==
    Parsed =>
        /\ ret.ok <=> Len(last_line) = WordLen
        /\ ret.ok =>
               Word_fmt(ret.val) =
                   [i \in 1..Len(last_line) |-> to_ascii_lowercase(last_line[i])]

(***************************************************************************)
(* Feedback lines: properties                                              *)
(***************************************************************************)
\* The step read an accepted line, or any line.
AcceptedLineRead == opt.cmd = "Solve" /\ valid_lines' = valid_lines + 1
LineRead == AcceptedLineRead \/ (opt.cmd = "Solve" /\ invalid_lines' = invalid_lines + 1)

IsLetter(c) == c \in LowerLetters \/ c \in UpperLetters

\* The char at index i (1-based) of the line is a lowercase letter with a
\* negation marker right before it.
negated_at(line, i) ==
    /\ line[i] \in LowerLetters
    /\ i > 1
    /\ line[i - 1] \in NegationMarkers

\* The number of letters of the line before index i: the position the letter
\* at i stands for.
letters_before(line, i) == Cardinality({j \in 1..(i - 1) : IsLetter(line[j])})

\* The chars the loop gets to: the line up to its first char outside the
\* grammar.
interpreted(line) ==
    LET bad == {i \in 1..Len(line) : ~ IsLetter(line[i]) /\ line[i] \notin NegationMarkers}
    IN  IF bad = {} THEN line
        ELSE SubSeq(line, 1, (CHOOSE i \in bad : \A j \in bad : i <= j) - 1)

\* What the letters of the line from index i on stand for, by the grammar:
\* the letters reported absent, the letters reported present, and the
\* FoundLetters.
RECURSIVE absent_of(_, _)
absent_of(line, i) ==
    IF i > Len(line) THEN <<>>
    ELSE (IF negated_at(line, i) THEN <<line[i]>> ELSE <<>>) \o absent_of(line, i + 1)

RECURSIVE required_of(_, _)
required_of(line, i) ==
    IF i > Len(line) THEN <<>>
    ELSE (IF IsLetter(line[i]) /\ ~ negated_at(line, i)
          THEN <<to_ascii_lowercase(line[i])>> ELSE <<>>) \o required_of(line, i + 1)

RECURSIVE found_of(_, _)
found_of(line, i) ==
    IF i > Len(line) THEN <<>>
    ELSE (IF IsLetter(line[i]) /\ ~ negated_at(line, i)
          THEN <<FoundLetter(to_ascii_lowercase(line[i]), letters_before(line, i),
                             line[i] \in UpperLetters)>>
          ELSE <<>>) \o found_of(line, i + 1)

\* C14: an accepted line appends, letter by letter from the left, each
\* un-negated lowercase letter to req_letters and as FoundLetter{letter,
\* position, false} to cand_letters, each uppercase letter in lowercase to
\* req_letters and as FoundLetter{letter, position, true} to cand_letters, and
\* each negated lowercase letter to omit_letters only, the position being the
\* number of letters before it in the line.
C14_LineParsing ==
    [][AcceptedLineRead =>
          /\ omit_letters' = omit_letters \o absent_of(last_line', 1)
          /\ req_letters' = req_letters \o required_of(last_line', 1)
          /\ cand_letters' = cand_letters \o found_of(last_line', 1)]_vars

\* C15: the letters a line adds to omit_letters are its lowercase letters
\* that have a negation marker right before them, and no others.
C15_AbsentOnlyRightAfterMarker ==
    [][LineRead =>
          omit_letters' = omit_letters \o absent_of(interpreted(last_line'), 1)]_vars

(***************************************************************************)
(* Solve loop: properties                                                  *)
(***************************************************************************)
\* C16: a Solve run that is no longer waiting for a line has ended because
\* the line source failed, with an error.
C16_SolveEndsOnlyOnInputFailure ==
    (opt.cmd = "Solve" /\ exit_status # "running") =>
        (input_failed /\ exit_status = "failure")

\* C18: every FoundLetter of the Hint has a position in 0..4 and no filter
\* pass has indexed a word out of range.
C18_PositionsInRange ==
    opt.cmd = "Solve" =>
        /\ \A k \in 1..Len(cand_letters) : cand_letters[k].position \in 0..(WordLen - 1)
        /\ exit_status # "panic"

\* A letter is both omitted and required, or two correct_location entries
\* name different letters for one position.
Contradictory(omit, req, cand) ==
    \/ \E i \in 1..Len(omit) : contains(req, omit[i])
    \/ \E i, j \in 1..Len(cand) :
          /\ cand[i].correct_location
          /\ cand[j].correct_location
          /\ cand[i].position = cand[j].position
          /\ cand[i].letter # cand[j].letter

\* C20: a round that starts with a contradictory Hint has an empty pool, and
\* a round that follows an empty pool has an empty pool.
C20_ContradictionEmptiesPool ==
    [][AcceptedLineRead =>
          /\ Contradictory(omit_letters', req_letters', cand_letters') =>
                 (exit_status' = "running" /\ words' = <<>>)
          /\ words = <<>> => (exit_status' = "running" /\ words' = <<>>)]_vars

(***************************************************************************)
(* suggest and display_suggestions on a pool of their own: a pool is drawn  *)
(* from a word list, as a prefix of it or as the list without a few of its  *)
(* words, and scored and shown once under the empty Hint.                   *)
(***************************************************************************)
\* Bound on the number of words left out of the list.
MaxDropped == 3

DisplayWords ==
    << W("e","e","r","i","e"), W("z","e","b","r","a"), W("f","u","z","z","y"),
       W("m","u","m","m","y"), W("t","e","p","i","d"), W("c","r","a","n","e"),
       W("c","a","b","l","e"), W("c","l","i","f","f"), W("h","i","p","p","o"),
       W("a","b","a","c","a"), W("s","p","o","o","l"), W("b","l","a","s","t"),
       W("c","o","u","l","d") >>

\* The entries of the list at the indices of S, in list order.
sub_list(list, S) ==
    LET idx == ascending(S) IN [i \in 1..Len(idx) |-> list[idx[i]]]

DisplayPools ==
    LET all == 1..Len(DisplayWords) IN
    { sub_list(DisplayWords, 1..n) : n \in 0..Len(DisplayWords) }
        \cup { sub_list(DisplayWords, all \ D) :
                   D \in {E \in SUBSET all : Cardinality(E) <= MaxDropped} }

DisplayInit ==
    /\ opt = [cmd |-> "display_suggestions", more_words |-> FALSE]
    /\ exit_status = "running"
    /\ printed = <<>>
    /\ omit_letters = <<>>
    /\ req_letters = <<>>
    /\ cand_letters = <<>>
    /\ words \in DisplayPools
    /\ scores = << >>
    /\ last_line = <<>>
    /\ valid_lines = 0
    /\ invalid_lines = 0
    /\ input_failed = FALSE
    /\ PlayIdle
    /\ FnIdle

\* let (new_words, scores) = suggest(hint, &words);
\* display_suggestions(&scores); words = new_words;
Display ==
    /\ opt.cmd = "display_suggestions"
    /\ valid_lines = 0
    /\ LET sug == suggest(make_hint(omit_letters, req_letters, cand_letters), words)[1]
       IN  /\ words' = sug.words
           /\ scores' = sug.scores
           /\ printed' = suggestion_lines(sug.scores)
    /\ valid_lines' = 1
    /\ UNCHANGED << opt, exit_status, omit_letters, req_letters, cand_letters,
                    play_vars, fn_vars, last_line, invalid_lines, input_failed >>

DisplayNext == Display

SpecDisplay == DisplayInit /\ [][DisplayNext]_vars

Displayed == opt.cmd = "display_suggestions" /\ valid_lines = 1

\* The suggestion lines of the last output, header left out.
ShownLines == SubSeq(printed, 2, Len(printed))

\* The scores the words of the pool have.
PoolScores == {true_score(words, words[i]) : i \in 1..Len(words)}

\* C17: the output has one line per score group up to DisplayTake lines; a
\* score is shown iff fewer than DisplayTake scores of the pool are higher;
\* the numbers printed increase from line to line, so the highest comes last;
\* and each line's number is the score of its words, which are all the words
\* of the pool with that score.
C17_TopTenAscending ==
    Displayed =>
        LET score_of == [i \in 1..Len(words) |-> true_score(words, words[i])]
            pool_scores == {score_of[i] : i \in 1..Len(words)}
            shown == ShownLines
        IN  /\ Len(shown) = Min(DisplayTake, Cardinality(pool_scores))
            /\ \A sc \in pool_scores :
                  (\E i \in 1..Len(shown) : shown[i].num = sc)
                      <=> Cardinality({t \in pool_scores : t > sc}) < DisplayTake
            /\ \A i, j \in 1..Len(shown) : i < j => shown[i].num < shown[j].num
            /\ \A i \in 1..Len(shown) :
                  /\ shown[i].kind = "suggestion"
                  /\ shown[i].text # <<>>
                  /\ shown[i].text =
                         sub_list(words, {k \in 1..Len(words) : score_of[k] = shown[i].num})

\* A pool with more than DisplayTake score groups has been shown, one of its
\* groups with two words.
C17_Witness ==
    /\ Displayed
    /\ Cardinality(PoolScores) > DisplayTake
    /\ Len(ShownLines) = DisplayTake
    /\ Cardinality(PoolScores) < Len(words)

(***************************************************************************)
(* Solve fed by the evaluator: an answer of the pool is fixed, and each      *)
(* feedback line is what guess_word says about a guess against that answer, *)
(* written in the feedback grammar.                                         *)
(***************************************************************************)
\* The line for a GuessResult: Correct as the uppercase letter, Present as
\* the lowercase letter, Incorrect as a negation marker and the lowercase
\* letter.
RECURSIVE encode_from(_, _)
encode_from(gr, pos) ==
    IF pos > Len(gr) THEN <<>>
    ELSE (CASE gr[pos].tag = "Correct" -> << gr[pos].c - 32 >>
            [] gr[pos].tag = "Present" -> << gr[pos].c >>
            [] gr[pos].tag = "Incorrect" -> << Ord("!"), gr[pos].c >>)
         \o encode_from(gr, pos + 1)

Encode(gr) == encode_from(gr, 1)

\* The guesses: the words of both lists and two words of neither.
Guesses ==
    { InitialPool(TRUE)[i] : i \in 1..Len(InitialPool(TRUE)) }
        \cup { W("e","e","r","i","e"), W("n","y","m","p","h") }

FaithfulInit ==
    /\ \E more_words \in BOOLEAN : opt = Opt_Solve(more_words)
    /\ exit_status = "running"
    /\ omit_letters = <<>>
    /\ req_letters = <<>>
    /\ cand_letters = <<>>
    /\ LET first == suggest(make_hint(<<>>, <<>>, <<>>), InitialPool(opt.more_words))[1]
       IN  /\ words = first.words
           /\ scores = first.scores
           /\ printed = suggestion_lines(first.scores)
    /\ \E i \in 1..Len(InitialPool(opt.more_words)) : answer = InitialPool(opt.more_words)[i]
    /\ guess_no = 1
    /\ results = <<>>
    /\ last_line = <<>>
    /\ valid_lines = 0
    /\ invalid_lines = 0
    /\ input_failed = FALSE
    /\ FnIdle

\* One round: the line read is the encoding of guess_word(g, answer).
FaithfulRound(g) == SolveAcceptedLine(Encode(guess_word(g, answer)))

FaithfulNext == \E g \in Guesses : FaithfulRound(g)

SpecFaithful == FaithfulInit /\ [][FaithfulNext]_vars

\* C19: when every feedback line is the encoding of the evaluator's verdict
\* on a guess against the answer, the answer is in the pool after every
\* round and no round has panicked.
C19_AnswerStaysInPool ==
    opt.cmd = "Solve" => (contains(words, answer) /\ exit_status = "running")

\* Two rounds of such feedback have narrowed the pool to the answer alone.
C19_Witness ==
    /\ opt.cmd = "Solve"
    /\ answer # Word_default
    /\ valid_lines = MaxRounds
    /\ words = <<answer>>

====
